---- MODULE Spec2Model ----
(***************************************************************************)
(* A model of the in-memory message bus of agents.py: MessageBus           *)
(* (register / send / history), BaseAgent (send / receive / inbox) and the *)
(* three reference agents EchoAgent, DecisionAgent and RouterAgent.        *)
(*                                                                         *)
(* bus.send is synchronous and re-entrant (a handler's reaction calls      *)
(* back into bus.send), so the Python call stack is modelled explicitly:   *)
(* `stack` holds one frame per active MessageBus.send and one per active   *)
(* BaseAgent.receive, innermost first.  An exception is caught nowhere in  *)
(* agents.py, so a raise unwinds the whole stack in one step and is        *)
(* recorded in `error`.                                                    *)
(*                                                                         *)
(* Python strings are sequences of one-character strings, so that          *)
(* str.startswith / str.endswith / str.strip are computed, not assumed.    *)
(***************************************************************************)
EXTENDS Integers, Sequences, FiniteSets, TLC

\* ---------------------------------------------------------------- bounds
\* top-level send calls (bus.send or agent.send) the driver makes in one run
MaxSends == 1
\* depth of the modelled call stack at which the interpreter gives up
\* (RecursionError); stands for Python's recursion limit
MaxDepth == 8
\* agent objects a driver that constructs agents on the fly may construct
MaxObjs == 2
\* history() calls a driver makes in one run
MaxSnaps == 2
\* changes a driver makes to the lists history() returned to it
MaxMutations == 1

\* --------------------------------------------------------------- strings
s_echo == <<"e", "c", "h", "o">>
s_dot == <<".">>
s_reply == <<"r", "e", "p", "l", "y">>
s_score == <<"s", "c", "o", "r", "e">>
s_decision == <<"d", "e", "c", "i", "s", "i", "o", "n">>
s_empty == <<>>

\* topics the agents test for or emit
t_echo == s_echo
t_echo_dot == s_echo \o s_dot
t_echo_reply == s_echo \o s_dot \o s_reply
t_dot_reply == s_dot \o s_reply
t_score == s_score
t_decision == s_decision
\* topics used by the tests and the example program
t_echo_hello == s_echo \o s_dot \o <<"h", "e", "l", "l", "o">>
t_not_echo == <<"n", "o", "t", "-">> \o s_echo
t_unknown == <<"u", "n", "k", "n", "o", "w", "n", ".", "t", "o", "p", "i", "c">>
t_scoreboard == s_score \o <<"b", "o", "a", "r", "d">>
t_score_update == s_score \o s_dot \o <<"u", "p", "d", "a", "t", "e">>
t_score_dot == s_score \o s_dot
t_x == <<"x">>

\* identities
n_echoer == <<"e", "c", "h", "o", "e", "r">>
n_decider == <<"d", "e", "c", "i", "d", "e", "r">>
n_router == <<"r", "o", "u", "t", "e", "r">>
n_tester == <<"t", "e", "s", "t", "e", "r">>
n_dup == <<"d", "u", "p">>
n_ghost == <<"g", "h", "o", "s", "t">>
n_r1 == <<"r", "1">>
n_r2 == <<"r", "2">>
\* identities passed to a constructor: whitespace only, and padded
n_space == <<" ">>
n_tab_space == <<"\t", " ">>
n_a == <<"a">>
n_padded == <<" ", "a", " ">>

\* Optional[str]: None is a value no string equals
NoneVal == <<"None">>

\* str.startswith(prefix)
StartsWith(s, p) == Len(p) <= Len(s) /\ SubSeq(s, 1, Len(p)) = p

\* str.endswith(suffix)
EndsWith(s, p) == Len(p) <= Len(s) /\ SubSeq(s, Len(s) - Len(p) + 1, Len(s)) = p

\* Python truthiness of an Optional[str]: None and "" are falsy
Truthy(s) == s # NoneVal /\ s # s_empty

\* the characters str.strip() removes, among those the drivers use
Whitespace == {" ", "\t", "\n"}

\* str.lstrip()
RECURSIVE LStrip(_)
LStrip(s) == IF s # <<>> /\ Head(s) \in Whitespace THEN LStrip(Tail(s)) ELSE s

\* str.rstrip()
RECURSIVE RStrip(_)
RStrip(s) ==
    IF s # <<>> /\ s[Len(s)] \in Whitespace THEN RStrip(SubSeq(s, 1, Len(s) - 1)) ELSE s

\* str.strip()
Strip(s) == RStrip(LStrip(s))

\* -------------------------------------------------------------- payloads
\* A payload value: a number, a string, or a missing key.
Num(k) == [t |-> "num", n |-> k]
StrVal == [t |-> "str", n |-> 0]
BoolVal(b) == [t |-> "bool", n |-> IF b THEN 1 ELSE 0]
ErrInvalid == [t |-> "invalid_value", n |-> 0]
Absent == [t |-> "absent", n |-> 0]

\* A payload dict, restricted to the keys agents.py reads or writes; `other`
\* stands for every key the agents never look at ({"x": 1}, {"text": ...}).
EmptyPayload ==
    [value |-> Absent, threshold |-> Absent, accepted |-> Absent,
     error |-> Absent, other |-> Absent, echo |-> Absent]

ScorePayload(v, th) == [EmptyPayload EXCEPT !.value = v, !.threshold = th]

OtherPayload(k) == [EmptyPayload EXCEPT !.other = Num(k)]

\* the payload {"echo": msg.payload} of EchoAgent.handle's send
EchoPayload(p) == [EmptyPayload EXCEPT !.echo = p]

\* isinstance(value, (int, float)); the drivers pass numbers, strings and
\* missing keys as values, never a bool
IsNumeric(v) == v.t = "num"

\* dict.get(key, default)
GetOr(v, default) == IF v.t = "absent" THEN default ELSE v

\* Message(sender, recipient, topic, payload); meta is never read or set by
\* agents.py and is left out.
Msg(s, r, t, p) == [sender |-> s, recipient |-> r, topic |-> t, payload |-> p]

\* --------------------------------------------------------------- objects
\* An agent object as constructed: its class, its name, and (RouterAgent)
\* its mapping, an insertion-ordered dict as a sequence of <<key, target>>.
EchoObj(n) == [kind |-> "Echo", name |-> n, mapping |-> <<>>]
DecisionObj(n) == [kind |-> "Decision", name |-> n, mapping |-> <<>>]
RouterObj(n, m) == [kind |-> "Router", name |-> n, mapping |-> m]

\* main.build_system's router mapping
RefMapping == << <<t_echo_dot, n_echoer>>, <<t_score, n_decider>> >>


\* ------------------------------------------------------ driver programs
\* The objects a driver constructs, by driver.  "ref" is main.build_system
\* (and the fixtures of both test files); "dup" is
\* test_message_bus_register_duplicate_name; "loop" and "route" are systems
\* with other Router mappings; "score" drives the DecisionAgent alone;
\* "twobus" constructs two MessageBus objects and two agents; "build" starts
\* with a bus and constructs its agents while it runs; "hist" calls
\* bus.history() and changes the lists it gets.
Drivers == {"ref", "dup", "loop", "route", "score", "twobus", "build", "hist"}

ObjsOf(d) ==
    CASE d = "ref" ->
           <<EchoObj(n_echoer), DecisionObj(n_decider), RouterObj(n_router, RefMapping)>>
      [] d = "dup" ->
           <<EchoObj(n_dup), EchoObj(n_dup), DecisionObj(n_decider)>>
      [] d = "loop" ->
           <<RouterObj(n_r1, << <<t_x, n_r2>> >>), RouterObj(n_r2, << <<t_x, n_r1>> >>)>>
      [] d = "route" ->
           <<EchoObj(n_echoer), DecisionObj(n_decider),
             RouterObj(n_router, << <<t_score, n_decider>>, <<t_score_dot, n_echoer>> >>)>>
      [] d = "score" ->
           <<DecisionObj(n_decider)>>
      [] d = "twobus" ->
           <<EchoObj(n_echoer), DecisionObj(n_decider)>>
      [] d = "build" ->
           <<>>
      [] d = "hist" ->
           <<DecisionObj(n_decider)>>

\* The <<class, name>> a driver passes to an agent constructor while it runs.
ConstructInputs(d) ==
    IF d = "build"
      THEN {"Echo", "Decision"} \X {s_empty, n_space, n_tab_space, n_a, n_padded}
      ELSE {}

\* The buses a driver constructs.
BusesOf(d) == IF d = "twobus" THEN {1, 2} ELSE {1}

\* The messages a driver passes to MessageBus.send directly.
BusSendInputs(d) ==
    CASE d = "ref" ->
           {Msg(n_tester, r, t, IF t = t_score THEN ScorePayload(Num(1), Num(1))
                                               ELSE OtherPayload(1)) :
               r \in {NoneVal, n_echoer, n_decider, n_router},
               t \in {t_echo, t_echo_hello, t_echo_reply, t_score, t_scoreboard,
                      t_not_echo}}
           \cup {Msg(n_tester, r, t, OtherPayload(1)) :
               r \in {s_empty, n_ghost}, t \in {t_echo, t_not_echo}}
           \cup {Msg(n_router, r, t_echo_hello, OtherPayload(1)) :
               r \in {NoneVal, n_router}}
      [] d = "dup" ->
           {Msg(n_tester, r, t_not_echo, EmptyPayload) : r \in {NoneVal, n_dup}}
      [] d = "loop" ->
           {Msg(n_tester, r, t_x, EmptyPayload) : r \in {NoneVal, n_r1}}
      [] d = "route" ->
           {Msg(n_tester, n_router, t, OtherPayload(1)) :
               t \in {t_score, t_score_update, t_scoreboard, t_score_dot, t_unknown}}
      [] d = "score" ->
           {Msg(n_tester, n_decider, t_score, ScorePayload(v, th)) :
               v \in {Absent, StrVal, Num(0), Num(1), Num(2)},
               th \in {Absent, StrVal, Num(0), Num(1)}}
      [] d = "twobus" ->
           {Msg(n_tester, NoneVal, t_score, ScorePayload(Num(1), Num(1)))}
      [] d = "build" ->
           {Msg(n_tester, n_a, t_not_echo, EmptyPayload)}
      [] d = "hist" ->
           {Msg(n_tester, n_decider, t_score, ScorePayload(Num(1), Num(1)))}

\* The <<recipient, topic, payload>> a driver passes to an agent's own send.
AgentSendInputs(d) ==
    CASE d = "ref" ->
           {<<NoneVal, t, IF t = t_score THEN ScorePayload(Num(1), Num(2))
                                         ELSE OtherPayload(2)>> :
               t \in {t_echo_hello, t_score, t_unknown}}
      [] d = "dup" -> {<<NoneVal, t_not_echo, EmptyPayload>>}
      [] d = "loop" -> {<<NoneVal, t_x, EmptyPayload>>}
      [] d = "route" -> {<<NoneVal, t_score_update, OtherPayload(2)>>}
      [] d = "score" -> {<<n_decider, t_score, ScorePayload(Num(1), Absent)>>}
      [] d = "twobus" -> {<<NoneVal, t_not_echo, EmptyPayload>>}
      [] d = "build" -> {<<n_padded, t_not_echo, EmptyPayload>>}
      [] d = "hist" -> {<<NoneVal, t_not_echo, EmptyPayload>>}

\* The buses a driver calls history() on.
HistoryInputs(d) == IF d = "hist" THEN BusesOf(d) ELSE {}

\* What a driver does to a list history() returned: list.append(x),
\* list.pop(), list.reverse().
MutationInputs(d) == IF d = "hist" THEN {"append", "pop", "reverse"} ELSE {}

\* ----------------------------------------------------------------- state
VARIABLES
    driver,   \* which driver program runs (fixed by Init)
    objs,     \* the agent objects constructed: sequence of [kind, name, mapping]
    bus_of,   \* BaseAgent._bus per object: a bus, or 0 for None
    agents,   \* MessageBus._agents per bus: object ids in insertion order
    history,  \* MessageBus._history per bus: sequence of messages
    inbox,    \* BaseAgent._inbox per object: sequence of messages
    stack,    \* the call stack: send and receive frames, innermost first
    error,    \* how the last top-level call ended: "none" or the exception
    calls,    \* log: every MessageBus.send invocation, in invocation order
    nsends,   \* log: top-level sends made so far
    snaps,    \* the lists history() returned, in call order, as the driver holds them
    nmuts     \* log: changes the driver made to those lists

vars == <<driver, objs, bus_of, agents, history, inbox, stack, error, calls, nsends,
          snaps, nmuts>>

ObjIds == 1..Len(objs)

Range(f) == {f[i] : i \in DOMAIN f}

\* the keys of MessageBus._agents
Keys(b) == {objs[agents[b][i]].name : i \in DOMAIN agents[b]}

\* self._agents.get(name): the object id registered under name, 0 for None
Lookup(b, name) ==
    IF \E i \in DOMAIN agents[b] : objs[agents[b][i]].name = name
      THEN LET i == CHOOSE i \in DOMAIN agents[b] : objs[agents[b][i]].name = name
           IN agents[b][i]
      ELSE 0

Init ==
    /\ driver \in Drivers
    /\ objs = ObjsOf(driver)
    /\ bus_of = [h \in 1..Len(ObjsOf(driver)) |-> 0]
    /\ agents = [b \in BusesOf(driver) |-> <<>>]
    /\ history = [b \in BusesOf(driver) |-> <<>>]
    /\ inbox = [h \in 1..Len(ObjsOf(driver)) |-> <<>>]
    /\ stack = <<>>
    /\ error = "none"
    /\ calls = <<>>
    /\ nsends = 0
    /\ snaps = <<>>
    /\ nmuts = 0

\* -------------------------------------------------- BaseAgent.__init__
\* mutant of NameBlank: only the empty name is rejected
NameBlank_EmptyOnly(name) == ~Truthy(name)

\* `not name or not name.strip()`
NameBlank(name) == ~Truthy(name) \/ ~Truthy(Strip(name))

\* The driver calls EchoAgent(name) or DecisionAgent(name): neither class
\* defines __init__, so BaseAgent.__init__ runs.
Construct(kind, name) ==
    /\ stack = <<>>
    /\ Len(objs) < MaxObjs
    /\ IF NameBlank(name)
         THEN /\ error' = "ValueError"
              /\ UNCHANGED <<objs, bus_of, inbox>>
         ELSE /\ objs' = Append(objs, [kind |-> kind, name |-> name, mapping |-> <<>>])
              /\ bus_of' = Append(bus_of, 0)
              /\ inbox' = Append(inbox, <<>>)
              /\ error' = "none"
    /\ UNCHANGED <<driver, snaps, nmuts, agents, history, stack, calls, nsends>>

\* ------------------------------------------------- MessageBus.register
\* mutant of NameTaken: the membership test compares objects, not names
NameTaken_ByObject(b, h) == h \in Range(agents[b])

\* `agent.name in self._agents`
NameTaken(b, h) == objs[h].name \in Keys(b)

\* `self._agents[agent.name] = agent`: a dict assignment replaces the value of
\* an existing key in place and appends a new key at the end.
DictSet(ag, h) ==
    IF \E i \in DOMAIN ag : objs[ag[i]].name = objs[h].name
      THEN [i \in DOMAIN ag |-> IF objs[ag[i]].name = objs[h].name THEN h ELSE ag[i]]
      ELSE Append(ag, h)

Register(b, h) ==
    /\ stack = <<>>
    /\ IF NameTaken(b, h)
         THEN /\ error' = "ValueError"
              /\ UNCHANGED <<agents, bus_of>>
         ELSE /\ agents' = [agents EXCEPT ![b] = DictSet(agents[b], h)]
              /\ bus_of' = [bus_of EXCEPT ![h] = b]
              /\ error' = "none"
    /\ UNCHANGED <<driver, snaps, nmuts, objs, history, inbox, stack, calls, nsends>>


\* ----------------------------------------------------- MessageBus.send
SendFrame(g, pending) == [type |-> "send", g |-> g, pending |-> pending, h |-> 0, pc |-> ""]

RecvFrame(g, h) == [type |-> "recv", g |-> g, pending |-> <<>>, h |-> h, pc |-> "handle"]

\* mutant of HistoryAppend: a message equal to a recorded one is not recorded again
HistoryAppend_Dedup(hist, m) == IF m \in Range(hist) THEN hist ELSE Append(hist, m)

\* `self._history.append(msg)`
HistoryAppend(hist, m) == Append(hist, m)

\* mutant of Recipients: a broadcast skips the handler that sent the message
Recipients_SkipSender(b, m) ==
    IF Truthy(m.recipient)
      THEN IF Lookup(b, m.recipient) # 0 THEN <<Lookup(b, m.recipient)>> ELSE <<>>
      ELSE SelectSeq(agents[b], LAMBDA h : objs[h].name # m.sender)

\* mutant of Recipients: a broadcast walks the registry from its newest entry
Recipients_Reversed(b, m) ==
    IF Truthy(m.recipient)
      THEN IF Lookup(b, m.recipient) # 0 THEN <<Lookup(b, m.recipient)>> ELSE <<>>
      ELSE [i \in 1..Len(agents[b]) |-> agents[b][Len(agents[b]) + 1 - i]]

\* The handlers the body of send invokes receive on, in order: the branch on
\* `msg.recipient` (truthiness), `self._agents.get(...)`, `self._agents.values()`.
Recipients(b, m) ==
    IF Truthy(m.recipient)
      THEN IF Lookup(b, m.recipient) # 0 THEN <<Lookup(b, m.recipient)>> ELSE <<>>
      ELSE agents[b]

\* mutant of PushFrame: the call is queued behind the frames already active
PushFrame_Queue(stk, f) == Append(stk, f)

\* A call is a new innermost frame: the caller goes on only when it is popped.
PushFrame(stk, f) == <<f>> \o stk

\* Entering MessageBus.send(msg) on bus b with caller stack stk.  The log entry
\* records the call whose reaction made this call (parent, 0: the driver), the
\* agent whose send built the message (by, 0: none), how many handlers the
\* parent call had served (pgot) and how many were registered (nreg).
EnterSend(b, m, parent, by, stk) ==
    /\ history' = [history EXCEPT ![b] = HistoryAppend(@, m)]
    /\ calls' = Append(calls, [bus |-> b, msg |-> m, parent |-> parent, by |-> by,
                               pgot |-> IF parent = 0 THEN 0 ELSE Len(calls[parent].got),
                               nreg |-> Len(agents[b]), status |-> "active", got |-> <<>>])
    /\ stack' = PushFrame(stk, SendFrame(Len(calls) + 1, Recipients(b, m)))

\* mutant of Raise: the failing send is rolled back, the messages of the sends
\* it interrupts are removed from the history
Raise_Rollback(err) ==
    /\ stack' = <<>>
    /\ error' = err
    /\ calls' = [g \in DOMAIN calls |->
                   IF calls[g].status = "active"
                     THEN [calls[g] EXCEPT !.status = "raised"] ELSE calls[g]]
    /\ history' = [b \in DOMAIN history |->
                     LET kept == SelectSeq(calls, LAMBDA c : c.bus = b /\ c.status # "active")
                     IN [i \in 1..Len(kept) |-> kept[i].msg]]

\* An exception propagates out of every active frame: nothing in agents.py
\* catches it.
Raise(err) ==
    /\ stack' = <<>>
    /\ error' = err
    /\ calls' = [g \in DOMAIN calls |->
                   IF calls[g].status = "active"
                     THEN [calls[g] EXCEPT !.status = "raised"] ELSE calls[g]]
    /\ UNCHANGED history

\* The driver calls bus.send(msg).
TopSend(b, m) ==
    /\ stack = <<>>
    /\ nsends < MaxSends
    /\ nsends' = nsends + 1
    /\ error' = "none"
    /\ EnterSend(b, m, 0, 0, <<>>)
    /\ UNCHANGED <<driver, snaps, nmuts, objs, bus_of, agents, inbox>>

\* --------------------------------------------------- MessageBus.history
\* A list object: either a list of its own with content val, or (same) the
\* very object self._history of bus `of`, whose content is read from it.
\* mutant of HistoryResult: history() returns self._history itself
HistoryResult_Alias(b) == [same |-> TRUE, of |-> b, val |-> <<>>]

\* `return list(self._history)`: a new list with the same entries
HistoryResult(b) == [same |-> FALSE, of |-> b, val |-> history[b]]

\* the entries of a list object
Content(l) == IF l.same THEN history[l.of] ELSE l.val

\* The driver calls bus.history() and keeps the result.  `ret` logs the
\* entries at the return, `nsent` how many sends bus b had seen and `muts` how
\* many changes the driver had made to earlier results.
History(b) ==
    /\ stack = <<>>
    /\ Len(snaps) < MaxSnaps
    /\ snaps' = Append(snaps, [list |-> HistoryResult(b),
                               ret |-> Content(HistoryResult(b)),
                               nsent |-> Len(SelectSeq(calls, LAMBDA c : c.bus = b)),
                               muts |-> nmuts])
    /\ UNCHANGED <<driver, objs, bus_of, agents, history, inbox, stack, error, calls,
                   nsends, nmuts>>

\* list.append(x) / list.pop() / list.reverse()
ApplyMutation(op, l) ==
    CASE op = "append" -> Append(l, Msg(n_ghost, NoneVal, t_x, EmptyPayload))
      [] op = "pop" -> SubSeq(l, 1, Len(l) - 1)
      [] op = "reverse" -> [i \in 1..Len(l) |-> l[Len(l) + 1 - i]]

\* The driver changes the i-th list it got from history().  A change to a
\* list object changes every holder's view of that object.
Mutate(i, op) ==
    /\ stack = <<>>
    /\ nmuts < MaxMutations
    /\ i \in DOMAIN snaps
    /\ op = "pop" => Content(snaps[i].list) # <<>>
    /\ nmuts' = nmuts + 1
    /\ IF snaps[i].list.same
         THEN /\ history' = [history EXCEPT ![snaps[i].list.of] =
                                ApplyMutation(op, Content(snaps[i].list))]
              /\ UNCHANGED snaps
         ELSE /\ snaps' = [snaps EXCEPT ![i].list.val =
                                ApplyMutation(op, Content(snaps[i].list))]
              /\ UNCHANGED history
    /\ UNCHANGED <<driver, objs, bus_of, agents, inbox, stack, error, calls, nsends>>

\* ------------------------------------------------------- BaseAgent.send
\* mutant of AgentSendBody: without a bus the send returns silently
AgentSendBody_Silent(h, r, t, p, parent, stk) ==
    IF bus_of[h] = 0
      THEN /\ stack' = stk
           /\ error' = "none"
           /\ UNCHANGED <<calls, history>>
      ELSE IF Len(stk) >= MaxDepth
             THEN Raise("RecursionError")
             ELSE /\ EnterSend(bus_of[h], Msg(objs[h].name, r, t, p), parent, h, stk)
                  /\ error' = "none"

\* agent h calls self.send(recipient, topic, payload) with caller stack stk
\* while reacting to call `parent`
AgentSendBody(h, r, t, p, parent, stk) ==
    IF bus_of[h] = 0
      THEN Raise("RuntimeError")
      ELSE IF Len(stk) >= MaxDepth
             THEN Raise("RecursionError")
             ELSE /\ EnterSend(bus_of[h], Msg(objs[h].name, r, t, p), parent, h, stk)
                  /\ error' = "none"

\* The driver calls h.send(recipient, topic, payload), as main.py does.
AgentSend(h, args) ==
    /\ stack = <<>>
    /\ nsends < MaxSends
    /\ nsends' = nsends + 1
    /\ AgentSendBody(h, args[1], args[2], args[3], 0, <<>>)
    /\ UNCHANGED <<driver, snaps, nmuts, objs, bus_of, agents, inbox>>

\* ---------------------------------------------------- BaseAgent.receive
\* The loop body / the directed branch of MessageBus.send: the next recipient's
\* receive is called; receive appends to the inbox and calls handle.
\* mutant of InboxAppend: the newest message is put at the front of the inbox
InboxAppend_Front(box, m) == <<m>> \o box

\* `self._inbox.append(msg)`
InboxAppend(box, m) == Append(box, m)

Deliver ==
    /\ stack # <<>>
    /\ LET top == Head(stack) IN
       /\ top.type = "send"
       /\ top.pending # <<>>
       /\ LET h == Head(top.pending) IN
          /\ inbox' = [inbox EXCEPT ![h] = InboxAppend(@, calls[top.g].msg)]
          /\ calls' = [calls EXCEPT ![top.g].got = Append(@, h)]
          /\ stack' = <<RecvFrame(top.g, h), [top EXCEPT !.pending = Tail(@)]>>
                        \o Tail(stack)
    /\ UNCHANGED <<driver, snaps, nmuts, objs, bus_of, agents, history, error, nsends>>

\* a receive frame whose handle is about to run, for an agent of class kind
Handling(kind) ==
    /\ stack # <<>>
    /\ Head(stack).type = "recv"
    /\ Head(stack).pc = "handle"
    /\ objs[Head(stack).h].kind = kind

\* handle returns without sending: receive returns to the bus
HandleReturns ==
    /\ stack' = Tail(stack)
    /\ UNCHANGED <<history, calls, error>>

\* handle calls self.send(r, t, p); what follows the call is the return
HandleSends(r, t, p) ==
    LET top == Head(stack) IN
    AgentSendBody(top.h, r, t, p, top.g, <<[top EXCEPT !.pc = "sent"]>> \o Tail(stack))

\* -------------------------------------------------------------- EchoAgent
\* `msg.topic == "echo" or msg.topic.startswith("echo.")`
IsEchoTopic(t) == t = t_echo \/ StartsWith(t, t_echo_dot)

\* EchoAgent.handle.  The first argument of its send,
\* `self.get_coordination().player_id`, is evaluated before the call: no class
\* in agents.py defines get_coordination, so the attribute lookup raises
\* AttributeError and no reply is built.
EchoHandle ==
    /\ Handling("Echo")
    /\ LET m == calls[Head(stack).g].msg IN
       IF IsEchoTopic(m.topic)
         THEN Raise("AttributeError")
         ELSE HandleReturns
    /\ UNCHANGED <<driver, snaps, nmuts, objs, bus_of, agents, inbox, nsends>>

\* ---------------------------------------------------------- DecisionAgent
\* `value >= threshold`, on values Python can compare
Accepted(value, threshold) == value.n >= threshold.n

\* the reply payload {"accepted": ..., "value": ..., "threshold": ...}
DecisionPayload(value, threshold) ==
    [EmptyPayload EXCEPT !.accepted = BoolVal(Accepted(value, threshold)),
                         !.value = value, !.threshold = threshold]

\* the reply payload {"error": "invalid_value"}
InvalidPayload == [EmptyPayload EXCEPT !.error = ErrInvalid]

\* DecisionAgent.handle.  `value >= threshold` between a number and a str
\* raises TypeError.
DecisionHandle ==
    /\ Handling("Decision")
    /\ LET m == calls[Head(stack).g].msg
           value == m.payload.value
           threshold == GetOr(m.payload.threshold, Num(0))
       IN IF m.topic = t_score
            THEN IF ~IsNumeric(value)
                   THEN HandleSends(m.sender, t_decision, InvalidPayload)
                   ELSE IF ~IsNumeric(threshold)
                          THEN Raise("TypeError")
                          ELSE HandleSends(m.sender, t_decision,
                                           DecisionPayload(value, threshold))
            ELSE HandleReturns
    /\ UNCHANGED <<driver, snaps, nmuts, objs, bus_of, agents, inbox, nsends>>

\* ------------------------------------------------------------ RouterAgent
\* `msg.topic.startswith(key)`
KeyMatches(topic, key) == StartsWith(topic, key)

\* the loop over self.mapping.items(): the target of the first matching key,
\* None when no key matches
RECURSIVE RouteTarget(_, _)
RouteTarget(mapping, topic) ==
    IF mapping = <<>>
      THEN NoneVal
      ELSE IF KeyMatches(topic, Head(mapping)[1])
             THEN Head(mapping)[2]
             ELSE RouteTarget(Tail(mapping), topic)

\* mutant of RouterIgnores: the test for a ".reply" topic is missing
RouterIgnores_SelfOnly(h, m) == m.sender = objs[h].name

\* mutant of RouterIgnores: the test for a self-originated message is missing
RouterIgnores_ReplyOnly(h, m) == EndsWith(m.topic, t_dot_reply)

\* `msg.sender == self.name or msg.topic.endswith(".reply")`
RouterIgnores(h, m) == m.sender = objs[h].name \/ EndsWith(m.topic, t_dot_reply)

\* RouterAgent.handle
RouterHandle ==
    /\ Handling("Router")
    /\ LET h == Head(stack).h
           m == calls[Head(stack).g].msg
           target == RouteTarget(objs[h].mapping, m.topic)
       IN IF RouterIgnores(h, m)
            THEN HandleReturns
            ELSE IF Truthy(target)
                   THEN HandleSends(target, m.topic, m.payload)
                   ELSE HandleReturns
    /\ UNCHANGED <<driver, snaps, nmuts, objs, bus_of, agents, inbox, nsends>>

\* ---------------------------------------------------------------- returns
\* the send a handler made has returned: handle and receive return
ReceiveReturn ==
    /\ stack # <<>>
    /\ Head(stack).type = "recv"
    /\ Head(stack).pc = "sent"
    /\ stack' = Tail(stack)
    /\ UNCHANGED <<driver, snaps, nmuts, objs, bus_of, agents, history, inbox, error, calls, nsends>>

\* every recipient has been served: MessageBus.send returns
SendReturn ==
    /\ stack # <<>>
    /\ Head(stack).type = "send"
    /\ Head(stack).pending = <<>>
    /\ calls' = [calls EXCEPT ![Head(stack).g].status = "returned"]
    /\ stack' = Tail(stack)
    /\ UNCHANGED <<driver, snaps, nmuts, objs, bus_of, agents, history, inbox, error, nsends>>

\* ---------------------------------------------------------- specification
Next ==
    \/ \E c \in ConstructInputs(driver) : Construct(c[1], c[2])
    \/ \E b \in BusesOf(driver), h \in ObjIds : Register(b, h)
    \/ \E b \in BusesOf(driver), m \in BusSendInputs(driver) : TopSend(b, m)
    \/ \E h \in ObjIds, args \in AgentSendInputs(driver) : AgentSend(h, args)
    \/ \E b \in HistoryInputs(driver) : History(b)
    \/ \E i \in 1..MaxSnaps, op \in MutationInputs(driver) : Mutate(i, op)
    \/ Deliver
    \/ EchoHandle
    \/ DecisionHandle
    \/ RouterHandle
    \/ ReceiveReturn
    \/ SendReturn

Spec == Init /\ [][Next]_vars


\* ================================================================ claims
IsPrefix(s, t) == Len(s) <= Len(t) /\ SubSeq(t, 1, Len(s)) = s

\* the messages passed to send on bus b, in invocation order
SentOn(b) ==
    LET sel == SelectSeq(calls, LAMBDA c : c.bus = b)
    IN [i \in 1..Len(sel) |-> sel[i].msg]

\* how many times handler h had receive invoked by call g
TimesGot(g, h) == Cardinality({i \in DOMAIN calls[g].got : calls[g].got[i] = h})

\* the calls made by agent h in reaction to call g
Replies(g, h) == {c \in DOMAIN calls : calls[c].parent = g /\ calls[c].by = h}

\* agent h's handle has run for call g up to its send or its return
Reacted(g, h) ==
    /\ \E i \in DOMAIN calls[g].got : calls[g].got[i] = h
    /\ ~\E i \in DOMAIN stack :
          stack[i].type = "recv" /\ stack[i].g = g /\ stack[i].h = h /\ stack[i].pc = "handle"

\* C1: a register call whose handler's name is already a key of the registry
\* fails with ValueError and changes nothing: the registry (so the first
\* handler stays under that name), the history, every inbox and every
\* handler's bus back-reference (so the rejected handler's is not set).
C1_DuplicateRegisterRejected ==
    [][\A b \in DOMAIN agents, h \in ObjIds :
         (Register(b, h) /\ objs[h].name \in Keys(b)) =>
            /\ error' = "ValueError"
            /\ agents' = agents
            /\ history' = history
            /\ inbox' = inbox
            /\ bus_of' = bus_of]_vars

\* C1 witness: a second object named like a registered one was rejected and
\* has no bus, while the first is still registered under the name.
C1_Witness ==
    /\ error = "ValueError"
    /\ \E b \in DOMAIN agents, h \in ObjIds :
          /\ bus_of[h] = 0
          /\ \E i \in DOMAIN agents[b] :
                agents[b][i] # h /\ objs[agents[b][i]].name = objs[h].name

\* C2: after every step the history of each bus is exactly the sequence of
\* messages passed to send on it, in invocation order (top-level and recursive
\* sends alike, so its length is the number of send invocations), and the
\* history before the step is a prefix of the history after it.
C2_HistoryIsSendLog ==
    [][\A b \in DOMAIN history :
         /\ history'[b] = SentOn(b)'
         /\ IsPrefix(history[b], history'[b])]_vars

\* C2 witness: a recursive send has been recorded and the history holds two
\* equal messages at different positions (nothing was deduplicated).
C2_Witness ==
    \E b \in DOMAIN history :
       /\ \E g \in DOMAIN calls : calls[g].parent # 0 /\ calls[g].bus = b
       /\ \E i, j \in DOMAIN history[b] : i < j /\ history[b][i] = history[b][j]

\* C3: for every send of a message with no recipient, no handler has receive
\* invoked with it more than once, and once the send has returned every handler
\* registered when it was made has had receive invoked with it exactly once,
\* the handler that sent it included.
C3_BroadcastExactlyOnce ==
    \A g \in DOMAIN calls :
       calls[g].msg.recipient = NoneVal =>
          /\ \A h \in ObjIds : TimesGot(g, h) <= 1
          /\ calls[g].status = "returned" =>
                \A i \in 1..calls[g].nreg : TimesGot(g, agents[calls[g].bus][i]) = 1

\* C3 witness: a broadcast to two or more handlers has returned, its sender is
\* one of them and received it, and another handler reacted by sending.
C3_Witness ==
    \E g \in DOMAIN calls :
       /\ calls[g].msg.recipient = NoneVal
       /\ calls[g].status = "returned"
       /\ calls[g].nreg >= 2
       /\ calls[g].by # 0
       /\ TimesGot(g, calls[g].by) = 1
       /\ \E c \in DOMAIN calls : calls[c].parent = g /\ calls[c].by # calls[g].by


\* the names registered on the bus of call g when the call was made
KeysAt(g) == {objs[agents[calls[g].bus][i]].name : i \in 1..calls[g].nreg}

\* C4 (as claimed): a message whose recipient is a string is delivered to the
\* handler registered under that string and to no other handler, and to no
\* handler at all when the string is not a key of the registry.
C4_DirectedOnly ==
    \A g \in DOMAIN calls :
       calls[g].msg.recipient # NoneVal =>
          IF calls[g].msg.recipient \in KeysAt(g)
            THEN \A i \in DOMAIN calls[g].got :
                    objs[calls[g].got[i]].name = calls[g].msg.recipient
            ELSE calls[g].got = <<>>

\* C5: re-entrant sends are depth-first.  For a send M2 = g made while reacting
\* to M1 = p: M1 was recorded before M2; every send recorded between them was
\* made under M1 too; and as long as send(M2) has not ended, send(M1) has not
\* ended either, the reaction that made M2 is suspended at its send, the
\* innermost frame belongs to M2 or to a send M2 triggered, and M1 has been
\* delivered to no further recipient.
C5_DepthFirst ==
    \A g \in DOMAIN calls :
       LET p == calls[g].parent IN
       p # 0 =>
          /\ p < g
          /\ \A k \in (p + 1)..g : calls[k].parent >= p
          /\ calls[g].status = "active" =>
                /\ calls[p].status = "active"
                /\ Len(calls[p].got) = calls[g].pgot
                /\ stack # <<>>
                /\ Head(stack).g >= g
                /\ \E i \in DOMAIN stack :
                      /\ stack[i].type = "recv"
                      /\ stack[i].g = p
                      /\ stack[i].h = calls[g].by
                      /\ stack[i].pc = "sent"

\* C5 witness: M2 was sent in a reaction to a broadcast M1, M2 itself triggered
\* a further send, both ended, and only then was M1 delivered to a later
\* recipient.
C5_Witness ==
    \E g \in DOMAIN calls :
       LET p == calls[g].parent IN
       /\ p # 0
       /\ calls[g].status = "returned"
       /\ \E c \in DOMAIN calls : calls[c].parent = g /\ calls[c].status = "returned"
       /\ Len(calls[p].got) > calls[g].pgot

\* C6 (as claimed): the chain of recursively triggered sends is finite, so no
\* send is ever cut off by the interpreter's recursion limit.
C6_ChainIsFinite == error # "RecursionError"

\* C7 (as claimed): an Echo handler that has reacted to a message with topic
\* "echo" or "echo.*" has sent exactly one message: from itself, to the sender
\* of the received message, on topic "echo.reply", with payload {"echo": payload}.
C7_EchoReplies ==
    \A g \in DOMAIN calls, h \in ObjIds :
       (objs[h].kind = "Echo" /\ Reacted(g, h) /\ IsEchoTopic(calls[g].msg.topic)) =>
          /\ Cardinality(Replies(g, h)) = 1
          /\ \A c \in Replies(g, h) :
                calls[c].msg = Msg(objs[h].name, calls[g].msg.sender, t_echo_reply,
                                   EchoPayload(calls[g].msg.payload))

\* the reply payload C8 describes for a received payload p
ClaimedDecisionPayload(p) ==
    IF IsNumeric(p.value)
      THEN [EmptyPayload EXCEPT
              !.accepted = BoolVal(p.value.n >= GetOr(p.threshold, Num(0)).n),
              !.value = p.value,
              !.threshold = GetOr(p.threshold, Num(0))]
      ELSE [EmptyPayload EXCEPT !.error = ErrInvalid]

\* C8 (as claimed): a Decision handler that has reacted to a message with topic
\* "score" has sent exactly one reply, to the message's sender on topic
\* "decision", whose payload is {accepted: value >= threshold, value, threshold}
\* for a numeric value (threshold 0 when absent) and {error: "invalid_value"}
\* without an accepted key otherwise.
C8_DecisionReplies ==
    \A g \in DOMAIN calls, h \in ObjIds :
       (objs[h].kind = "Decision" /\ Reacted(g, h) /\ calls[g].msg.topic = t_score) =>
          /\ Cardinality(Replies(g, h)) = 1
          /\ \A c \in Replies(g, h) :
                calls[c].msg = Msg(objs[h].name, calls[g].msg.sender, t_decision,
                                   ClaimedDecisionPayload(calls[g].msg.payload))

\* the match C9 describes: the key equals the topic, or ends in "." and is a
\* prefix of the topic
ClaimedKeyMatches(topic, key) ==
    key = topic \/ (EndsWith(key, s_dot) /\ StartsWith(topic, key))

RECURSIVE ClaimedRouteTarget(_, _)
ClaimedRouteTarget(mapping, topic) ==
    IF mapping = <<>>
      THEN NoneVal
      ELSE IF ClaimedKeyMatches(topic, Head(mapping)[1])
             THEN Head(mapping)[2]
             ELSE ClaimedRouteTarget(Tail(mapping), topic)

\* C9 (as claimed): a Router that has reacted to a message that is not its own
\* and whose topic does not end in ".reply" has forwarded it, same topic and
\* payload, to the target of the first mapping entry whose key equals the topic
\* or ends in "." and is a prefix of it, and has sent nothing when there is no
\* such entry (a key without a final "." matches only itself).
C9_RouterMatch ==
    \A g \in DOMAIN calls, h \in ObjIds :
       (/\ objs[h].kind = "Router"
        /\ Reacted(g, h)
        /\ ~RouterIgnores(h, calls[g].msg)
        /\ error # "RecursionError") =>
          LET target == ClaimedRouteTarget(objs[h].mapping, calls[g].msg.topic) IN
          IF target = NoneVal
            THEN Replies(g, h) = {}
            ELSE /\ Cardinality(Replies(g, h)) = 1
                 /\ \A c \in Replies(g, h) :
                       calls[c].msg = Msg(objs[h].name, target, calls[g].msg.topic,
                                          calls[g].msg.payload)

\* C10 (as claimed): in the reference system, a message sent by the driver whose
\* topic is not "echo", does not begin with "echo.", is not "score" and matches
\* no key of the Router's mapping triggers no send and raises nothing.
C10_NoReaction ==
    \A g \in DOMAIN calls :
       (/\ driver = "ref"
        /\ calls[g].parent = 0
        /\ calls[g].nreg = Len(objs)
        /\ ~IsEchoTopic(calls[g].msg.topic)
        /\ calls[g].msg.topic # t_score
        /\ ClaimedRouteTarget(RefMapping, calls[g].msg.topic) = NoneVal) =>
          /\ calls[g].status # "raised"
          /\ \A c \in DOMAIN calls : calls[c].parent # g

\* C11: no send made by a Router is a reaction to a message whose topic ends
\* in ".reply" or to a message whose sender is the Router's own name.
C11_RouterNeverForwardsReplyOrOwn ==
    \A c \in DOMAIN calls :
       (calls[c].parent # 0 /\ calls[c].by # 0 /\ objs[calls[c].by].kind = "Router") =>
          /\ ~EndsWith(calls[calls[c].parent].msg.topic, t_dot_reply)
          /\ calls[calls[c].parent].msg.sender # objs[calls[c].by].name

\* C11 witness: a Router has reacted to a message whose topic ends in ".reply"
\* and is matched by a key of its mapping, and has sent nothing.
C11_Witness ==
    \E g \in DOMAIN calls, h \in ObjIds :
       /\ objs[h].kind = "Router"
       /\ Reacted(g, h)
       /\ EndsWith(calls[g].msg.topic, t_dot_reply)
       /\ calls[g].msg.sender # objs[h].name
       /\ RouteTarget(objs[h].mapping, calls[g].msg.topic) # NoneVal
       /\ Replies(g, h) = {}

\* C13: a send called by the driver on an agent that is in no registry raises
\* RuntimeError and changes no history, no inbox and no log of sends; called on
\* a registered agent it appends to the history of the agent's bus a message
\* whose sender is the agent's name.
C13_SendNeedsRegistration ==
    [][\A h \in ObjIds, args \in AgentSendInputs(driver) :
         AgentSend(h, args) =>
            IF \A b \in DOMAIN agents : h \notin Range(agents[b])
              THEN /\ error' = "RuntimeError"
                   /\ history' = history
                   /\ inbox' = inbox
                   /\ calls' = calls
                   /\ stack' = <<>>
              ELSE /\ error' = "none"
                   /\ history'[bus_of[h]] =
                         Append(history[bus_of[h]],
                                Msg(objs[h].name, args[1], args[2], args[3]))]_vars

\* C13 witness: the driver's send on an unregistered agent has failed while
\* another agent is registered, and nothing was recorded or delivered.
C13_Witness ==
    /\ error = "RuntimeError"
    /\ nsends > 0
    /\ calls = <<>>
    /\ \E b \in DOMAIN agents : agents[b] # <<>> /\ history[b] = <<>>
    /\ \A h \in ObjIds : inbox[h] = <<>>

\* the position in its bus's history at which the message of call g was appended
HistPos(g) == Cardinality({k \in 1..g : calls[k].bus = calls[g].bus})

\* C14: when a send has been ended by an exception of a reaction, its message
\* and the message of every send made before it are in the history of their
\* bus, each at the position at which it was appended.
C14_HistoryKeptOnFailure ==
    \A g \in DOMAIN calls :
       calls[g].status = "raised" =>
          \A k \in 1..g :
             /\ HistPos(k) <= Len(history[calls[k].bus])
             /\ history[calls[k].bus][HistPos(k)] = calls[k].msg

\* C14 witness: a reaction to M2, itself sent in a reaction to M1, has raised;
\* the failure has left the top-level send and both messages are in the history.
C14_Witness ==
    \E g, c \in DOMAIN calls :
       /\ calls[c].parent = g
       /\ calls[g].status = "raised"
       /\ calls[c].status = "raised"
       /\ calls[c].got # <<>>
       /\ stack = <<>>
       /\ error \in {"AttributeError", "TypeError"}
       /\ history[calls[g].bus][HistPos(g)] = calls[g].msg
       /\ history[calls[c].bus][HistPos(c)] = calls[c].msg

\* the position, among the handlers call g has served, of the handler in whose
\* reaction call c was made (directly or through further sends); 0 when c was
\* not made in a reaction to g
RECURSIVE ReactionOf(_, _)
ReactionOf(c, g) ==
    IF calls[c].parent = 0
      THEN 0
      ELSE IF calls[c].parent = g
             THEN calls[c].pgot
             ELSE ReactionOf(calls[c].parent, g)

\* C16: a broadcast serves the handlers in registration order, and when it
\* reaches a handler the reaction of every handler served before it is over:
\* no receive of an earlier handler is on the call stack and no send made in
\* an earlier handler's reaction is still running.
C16_BroadcastInRegistrationOrder ==
    \A g \in DOMAIN calls :
       ~Truthy(calls[g].msg.recipient) =>
          /\ IsPrefix(calls[g].got, agents[calls[g].bus])
          /\ \A i \in DOMAIN stack :
                (stack[i].type = "recv" /\ stack[i].g = g) =>
                   stack[i].h = calls[g].got[Len(calls[g].got)]
          /\ \A c \in DOMAIN calls :
                (ReactionOf(c, g) >= 1 /\ ReactionOf(c, g) < Len(calls[g].got)) =>
                   calls[c].status # "active"

\* C16 witness: a broadcast has reached its second handler, whose reaction is
\* about to run, after a send made in the first handler's reaction returned.
C16_Witness ==
    \E g \in DOMAIN calls :
       /\ ~Truthy(calls[g].msg.recipient)
       /\ Len(calls[g].got) = 2
       /\ calls[g].got = SubSeq(agents[calls[g].bus], 1, 2)
       /\ calls[g].got[1] # calls[g].got[2]
       /\ Handling(objs[calls[g].got[2]].kind)
       /\ Head(stack).g = g
       /\ \E c \in DOMAIN calls :
             /\ calls[c].parent = g
             /\ calls[c].pgot = 1
             /\ calls[c].status = "returned"

\* the top-level call in whose course call c was made
RECURSIVE Root(_)
Root(c) == IF calls[c].parent = 0 THEN c ELSE Root(calls[c].parent)

\* how many messages handler h received in the course of top-level call r
Received(r, h) ==
    Cardinality({ci \in (DOMAIN calls) \X (1..Len(objs)) :
                    /\ Root(ci[1]) = r
                    /\ ci[2] \in DOMAIN calls[ci[1]].got
                    /\ calls[ci[1]].got[ci[2]] = h})

\* how many messages handler h sent in the course of top-level call r
Emitted(r, h) ==
    Cardinality({c \in DOMAIN calls : Root(c) = r /\ calls[c].by = h /\ calls[c].parent # 0})

\* a top-level broadcast (recipient None) in the reference system
RefBroadcast(r) ==
    /\ driver = "ref"
    /\ calls[r].parent = 0
    /\ calls[r].msg.recipient = NoneVal

RECURSIVE IsSubseq(_, _)
IsSubseq(s, t) ==
    IF s = <<>>
      THEN TRUE
      ELSE IF t = <<>>
             THEN FALSE
             ELSE IF Head(s) = Head(t)
                    THEN IsSubseq(Tail(s), Tail(t))
                    ELSE IsSubseq(s, Tail(t))

\* C17 (as claimed): every handler's inbox holds entries of its bus's history
\* in the same relative order as the history holds them.
C17_InboxInHistoryOrder ==
    \A h \in ObjIds :
       bus_of[h] # 0 => IsSubseq(inbox[h], history[bus_of[h]])

\* C17 (amended): an inbox changes only when the bus delivers a message to its
\* handler, and then by that message being appended at its end, with the
\* handler's reaction to it still to run; every inbox entry is an entry of the
\* history of a bus the handler is registered on.
C17_InboxIsReceiptLog ==
    [][/\ \A h \in ObjIds :
             inbox'[h] # inbox[h] =>
                /\ stack # <<>>
                /\ Head(stack).type = "send"
                /\ Head(stack).pending # <<>>
                /\ Head(Head(stack).pending) = h
                /\ inbox'[h] = Append(inbox[h], calls[Head(stack).g].msg)
                /\ calls[Head(stack).g].msg \in Range(history[calls[Head(stack).g].bus])
                /\ Head(stack').type = "recv"
                /\ Head(stack').h = h
                /\ Head(stack').g = Head(stack).g
                /\ Head(stack').pc = "handle"
                /\ \A k \in ObjIds \ {h} : inbox'[k] = inbox[k]
       /\ \A h \in ObjIds : \A i \in DOMAIN inbox'[h] :
             \E b \in DOMAIN agents' :
                h \in Range(agents'[b]) /\ inbox'[h][i] \in Range(history'[b])]_vars

\* C17 witness: a handler is about to react to the second message it received;
\* its inbox holds the two messages in receipt order, which is the reverse of
\* their order in the history.
C17_Witness ==
    \E h \in ObjIds :
       /\ Len(inbox[h]) = 2
       /\ inbox[h][1] # inbox[h][2]
       /\ stack # <<>>
       /\ Head(stack).type = "recv"
       /\ Head(stack).h = h
       /\ Head(stack).pc = "handle"
       /\ inbox[h][2] = calls[Head(stack).g].msg
       /\ bus_of[h] # 0
       /\ IsSubseq(<<inbox[h][2], inbox[h][1]>>, history[bus_of[h]])
       /\ ~IsSubseq(inbox[h], history[bus_of[h]])

\* C18 (as claimed): no handler is a value of the registries of two buses, and
\* the back-reference of a handler in a registry is the bus of that registry.
C18_OneBusPerHandler ==
    \A h \in ObjIds :
       /\ \A b1, b2 \in DOMAIN agents :
             (h \in Range(agents[b1]) /\ h \in Range(agents[b2])) => b1 = b2
       /\ \A b \in DOMAIN agents :
             h \in Range(agents[b]) => bus_of[h] = b

\* a name that is empty or made of whitespace characters only
AllWhitespace(name) == \A i \in DOMAIN name : name[i] \in {" ", "\t", "\n"}

\* C15: a constructor call with an empty or whitespace-only name fails with
\* ValueError and constructs nothing, any other name constructs a handler of
\* that name; an object's name never changes; so every handler in a registry
\* has a name that is not empty and not blank, and no two entries of a
\* registry have the same name.
C15_NamesValidated ==
    [][/\ \A c \in ConstructInputs(driver) :
             Construct(c[1], c[2]) =>
                IF AllWhitespace(c[2])
                  THEN error' = "ValueError" /\ objs' = objs /\ agents' = agents
                  ELSE /\ Len(objs') = Len(objs) + 1
                       /\ objs'[Len(objs')].name = c[2]
                       /\ error' = "none"
       /\ \A h \in DOMAIN objs : objs'[h] = objs[h]
       /\ \A b \in DOMAIN agents' : \A i \in DOMAIN agents'[b] :
             /\ objs'[agents'[b][i]].name # <<>>
             /\ ~AllWhitespace(objs'[agents'[b][i]].name)
             /\ \A j \in DOMAIN agents'[b] :
                   objs'[agents'[b][j]].name = objs'[agents'[b][i]].name => j = i]_vars

\* C15 witness: a constructor call has failed (nothing is registered, so no
\* register call can have failed) after a handler with a padded name was
\* constructed.
C15_Witness ==
    /\ driver = "build"
    /\ error = "ValueError"
    /\ \A b \in DOMAIN agents : agents[b] = <<>>
    /\ \E h \in ObjIds : objs[h].name = n_padded

\* C12: every history() call returns the messages passed to send on its bus
\* so far, whatever the driver did to the lists earlier calls returned; so two
\* calls with no send in between return equal sequences, and a change to a
\* returned list changes neither the recorded history nor a later result.
C12_HistoryIsSnapshot ==
    /\ \A i \in DOMAIN snaps :
          /\ snaps[i].ret = SubSeq(SentOn(snaps[i].list.of), 1, snaps[i].nsent)
          /\ \A j \in DOMAIN snaps :
                (snaps[j].list.of = snaps[i].list.of /\ snaps[j].nsent = snaps[i].nsent) =>
                   snaps[j].ret = snaps[i].ret
    /\ \A b \in DOMAIN history : history[b] = SentOn(b)

\* C12 witness: the driver changed the list a first history() call returned,
\* then called history() again with no send in between: the second result
\* equals what the first call returned, the two entries of the history.
C12_Witness ==
    /\ Len(snaps) = 2
    /\ snaps[1].list.of = snaps[2].list.of
    /\ snaps[1].nsent = snaps[2].nsent
    /\ snaps[1].nsent = 2
    /\ snaps[2].muts = 1
    /\ Content(snaps[1].list) # snaps[1].ret
    /\ snaps[2].ret = snaps[1].ret
    /\ Content(snaps[2].list) = history[snaps[2].list.of]
    /\ Len(history[snaps[2].list.of]) = 2

====
